---------------------------- MODULE Spec2Model ----------------------------
(***************************************************************************)
(* Model of src/code_example.py: ProjectAnalyzer.create_gantt_chart (the   *)
(* single forward scheduling pass over a list of ConstructionWork) and     *)
(* ProjectAnalyzer.analyze_project_completeness (the weighted document     *)
(* score).                                                                 *)
(*                                                                         *)
(* Numbers.  Python floats are modelled as exact rationals <<num, den>>    *)
(* in lowest terms (den > 0).  A datetime is modelled the way CPython      *)
(* stores it: <<days, seconds, microseconds>> since an epoch, normalised   *)
(* to 0 <= seconds < 86400 and 0 <= microseconds < 1000000; a timedelta is *)
(* the same triple.  None is the empty tuple.                              *)
(***************************************************************************)
EXTENDS Integers, Sequences, FiniteSets, TLC

\* ------------------------------------------------------------------ bounds
MaxItems == 2
MaxCalls == 2

\* Names of the works in a list, and the dependency lists a work may carry.
\* A name of WorkNames that no item of the list bears is an unresolved name.
WorkNames == {"A", "B"}
DepLists == {<<>>, <<"A">>, <<"B">>, <<"A", "B">>, <<"B", "A">>}
Amounts == {0, 1, 3}
ManHours == {5}
\* ProjectAnalyzer(workers_count, workday_hours): the defaults 2 and 8, and a
\* crew of 7 whose day fractions are not a whole number of microseconds.
WorkerCounts == {2, 7}
WorkdayHours == {8}
\* Project start dates handed to create_gantt_chart.
StartDates == {<<0, 0, 0>>, <<1, 86399, 999999>>}

None == <<>>

\* ---------------------------------------------------------------- rationals
RECURSIVE Gcd(_, _)
Gcd(a, b) == IF b = 0 THEN a ELSE Gcd(b, a % b)

Abs(n) == IF n < 0 THEN -n ELSE n

Rat(n, d) ==
    LET g == Gcd(Abs(n), Abs(d))
        s == IF d < 0 THEN -1 ELSE 1
    IN  <<(s * n) \div g, (s * d) \div g>>

RatAdd(x, y) == Rat(x[1] * y[2] + y[1] * x[2], x[2] * y[2])
RatMul(x, y) == Rat(x[1] * y[1], x[2] * y[2])
RatDiv(x, y) == Rat(x[1] * y[2], x[2] * y[1])
RatInt(n) == <<n, 1>>

\* ------------------------------------------------------ datetime, timedelta
\* Carry microseconds into seconds and seconds into days.
Normalize(d, s, us) ==
    LET s1 == s + (us \div 1000000)
    IN  <<d + (s1 \div 86400), s1 % 86400, us % 1000000>>

\* round(n / d) to the nearest integer, ties to the even one (d > 0).
RoundHalfEven(n, d) ==
    LET q == n \div d
        r == n % d
    IN  IF 2 * r < d THEN q
        ELSE IF 2 * r > d THEN q + 1
        ELSE IF q % 2 = 0 THEN q ELSE q + 1

\* timedelta(days=x) for x >= 0: whole days, whole seconds of the day
\* fraction, and the rest rounded to the nearest microsecond.
timedelta(x) ==
    LET days == x[1] \div x[2]
        r    == x[1] % x[2]
        secs == (r * 86400) \div x[2]
        r2   == (r * 86400) % x[2]
    IN  Normalize(days, secs, RoundHalfEven(r2 * 1000000, x[2]))

\* datetime + timedelta
DatetimeAdd(dt, td) == Normalize(dt[1] + td[1], dt[2] + td[2], dt[3] + td[3])

\* datetime - datetime, a timedelta
DatetimeSub(a, b) == Normalize(a[1] - b[1], a[2] - b[2], a[3] - b[3])

DatetimeLess(a, b) ==
    \/ a[1] < b[1]
    \/ a[1] = b[1] /\ a[2] < b[2]
    \/ a[1] = b[1] /\ a[2] = b[2] /\ a[3] < b[3]

DatetimeLeq(a, b) == a = b \/ DatetimeLess(a, b)


\* -------------------------------------------------------------------- state
VARIABLES
    workers_count,      \* ProjectAnalyzer.workers_count
    workday_hours,      \* ProjectAnalyzer.workday_hours
    works,              \* the caller's list of ConstructionWork, mutated in place
    start_date,         \* the start_date argument of the latest create_gantt_chart call
    gantt,              \* the rows of the DataFrame the latest call returned
    calls,              \* number of create_gantt_chart calls made on the list
    entry_works,        \* the list as it was on entry to the latest call
    entry_start_date,   \* the start_date argument of the call before the latest
    files_info,         \* the argument of the latest analyze_project_completeness call
    completeness        \* what that call returned

gantt_vars == <<workers_count, workday_hours, works, start_date, gantt, calls,
                entry_works, entry_start_date>>
score_vars == <<files_info, completeness>>
vars == <<gantt_vars, score_vars>>

\* ---------------------------------------------------------- ConstructionWork
\* A freshly constructed work: start_date and end_date default to None.
\* (unit is only ever formatted into the output table and is left out.)
ConstructionWork(name, amount, man_hours_per_unit, dependencies) ==
    [name |-> name, amount |-> amount, man_hours_per_unit |-> man_hours_per_unit,
     dependencies |-> dependencies, start_date |-> None, end_date |-> None]

FreshWorks ==
    {ConstructionWork(n, a, m, d) : n \in WorkNames, a \in Amounts, m \in ManHours, d \in DepLists}

WorkLists == UNION {[1..n -> FreshWorks] : n \in 0..MaxItems}

\* ------------------------------------------------------- calculate_duration
calculate_duration(work) ==
    LET total_hours == RatMul(RatInt(work.man_hours_per_unit), RatInt(work.amount))
    IN  RatDiv(total_hours, RatInt(workday_hours * workers_count))

\* ------------------------------------------------------- create_gantt_chart
\* Variant: dates are only initialised when the work has none yet.
KeepDates(work, start, work_duration) ==
    IF work.start_date # None /\ work.end_date # None
    THEN work
    ELSE [work EXCEPT !.start_date = start,
                      !.end_date = DatetimeAdd(start, timedelta(work_duration))]

\* Lines 79-80: the tentative dates every work gets first.
TentativeDates(work, start, work_duration) ==
    [work EXCEPT !.start_date = start,
                 !.end_date = DatetimeAdd(start, timedelta(work_duration))]

\* Variant: the scan starts from the work's own tentative end date.
InitialFromWorkEnd(work, start) == work.end_date

\* Line 85: the scan starts from the project start date.
InitialMaxEndDate(work, start) == start

\* Variant: the name comparison is forgotten.
DepMatchesAnyName(dep_work, dep_name) == dep_work.end_date # None

\* Line 88: a list item counts when it bears the dependency's name and its
\* end_date is set (a datetime is always truthy, so only None is skipped).
DepMatches(dep_work, dep_name) ==
    dep_work.name = dep_name /\ dep_work.end_date # None

\* Variant: min instead of max.
EarlierOf(max_end_date, end_date) ==
    IF DatetimeLess(end_date, max_end_date) THEN end_date ELSE max_end_date

\* Line 89: max(max_end_date, dep_work.end_date)
LaterOf(max_end_date, end_date) ==
    IF DatetimeLess(max_end_date, end_date) THEN end_date ELSE max_end_date

\* Lines 87-89: the inner loop over the whole list, from position j on.
RECURSIVE ScanWorks(_, _, _, _)
ScanWorks(ws, dep_name, j, max_end_date) ==
    IF j > Len(ws) THEN max_end_date
    ELSE ScanWorks(ws, dep_name, j + 1,
                   IF DepMatches(ws[j], dep_name)
                   THEN LaterOf(max_end_date, ws[j].end_date)
                   ELSE max_end_date)

\* Lines 86-89: the loop over the dependency names, from position k on.
RECURSIVE ScanDeps(_, _, _, _)
ScanDeps(ws, deps, k, max_end_date) ==
    IF k > Len(deps) THEN max_end_date
    ELSE ScanDeps(ws, deps, k + 1, ScanWorks(ws, deps[k], 1, max_end_date))

\* Variant: the end date is not recomputed after the start date is moved.
MoveStartOnly(work, max_end_date, work_duration) ==
    [work EXCEPT !.start_date = max_end_date]

\* Lines 91-92: the work is moved to the latest end date found.
MoveTo(work, max_end_date, work_duration) ==
    [work EXCEPT !.start_date = max_end_date,
                 !.end_date = DatetimeAdd(max_end_date, timedelta(work_duration))]

\* Variant: the dependency scan runs on the list as it was before the work
\* got its tentative dates.
ScheduleWorkScanFirst(ws, i, start) ==
    LET work_duration == calculate_duration(ws[i])
        ws1 == [ws EXCEPT ![i] = TentativeDates(ws[i], start, work_duration)]
    IN  IF ws[i].dependencies # <<>>
        THEN LET max_end_date ==
                     ScanDeps(ws, ws[i].dependencies, 1, InitialMaxEndDate(ws1[i], start))
             IN  [ws1 EXCEPT ![i] = MoveTo(ws1[i], max_end_date, work_duration)]
        ELSE ws1

\* Lines 78-92: one iteration of the loop, for the work at position i.  The
\* tentative dates are stored in the list before the scan, so the scan sees them.
ScheduleWork(ws, i, start) ==
    LET work_duration == calculate_duration(ws[i])
        ws1 == [ws EXCEPT ![i] = TentativeDates(ws[i], start, work_duration)]
    IN  IF ws1[i].dependencies # <<>>
        THEN LET max_end_date ==
                     ScanDeps(ws1, ws1[i].dependencies, 1, InitialMaxEndDate(ws1[i], start))
             IN  [ws1 EXCEPT ![i] = MoveTo(ws1[i], max_end_date, work_duration)]
        ELSE ws1

\* Lines 77-92: the forward pass, from position i on.
RECURSIVE SchedulePass(_, _, _)
SchedulePass(ws, i, start) ==
    IF i > Len(ws) THEN ws ELSE SchedulePass(ScheduleWork(ws, i, start), i + 1, start)

\* Variant: the pass is repeated, so that dependencies placed later in the
\* list are seen.
RunPassTwice(ws, start) == SchedulePass(SchedulePass(ws, 1, start), 1, start)

\* Lines 77-92: the whole loop.
RunPass(ws, start) == SchedulePass(ws, 1, start)

\* Lines 95-105: one row of the returned table (the formatted volume and the
\* two formatted dates are left out).
GanttRow(work) ==
    [name |-> work.name,
     man_hours |-> work.man_hours_per_unit * work.amount,
     duration_days |-> DatetimeSub(work.end_date, work.start_date)[1],
     dependencies |-> work.dependencies]

\* create_gantt_chart(works, start_date)
CreateGanttChart(start) ==
    /\ calls < MaxCalls
    /\ works' = RunPass(works, start)
    /\ gantt' = [i \in 1..Len(works) |-> GanttRow(works'[i])]
    /\ start_date' = start
    /\ entry_works' = works
    /\ entry_start_date' = start_date
    /\ calls' = calls + 1
    /\ UNCHANGED <<workers_count, workday_hours, score_vars>>

GanttIdle ==
    /\ start_date = None
    /\ gantt = <<>>
    /\ calls = 0
    /\ entry_works = <<>>
    /\ entry_start_date = None

ScoreIdle ==
    /\ files_info = <<>>
    /\ completeness = None

\* After ProjectAnalyzer(workers_count, workday_hours) and the construction of
\* a list of works; nothing has been scheduled or scored yet.
Init ==
    /\ workers_count \in WorkerCounts
    /\ workday_hours \in WorkdayHours
    /\ works \in WorkLists
    /\ GanttIdle
    /\ ScoreIdle

Next == \E start \in StartDates : CreateGanttChart(start)

Spec == Init /\ [][Next]_vars

\* -------------------------------------------- analyze_project_completeness
\* Line 115.
max_score == 4

\* Lines 119-124: the criteria in the dict's insertion order; the weights are
\* 1, 2, 1 and 0.5.  (The document labels are given in English.)
criteria == <<
    [criterion |-> "has_technical_task", doc_name |-> "Technical brief",  weight |-> <<1, 1>>],
    [criterion |-> "has_estimate",       doc_name |-> "Estimate with labour costs", weight |-> <<2, 1>>],
    [criterion |-> "has_schedule",       doc_name |-> "Work schedule",    weight |-> <<1, 1>>],
    [criterion |-> "has_visual_plans",   doc_name |-> "Visual plans",     weight |-> <<1, 2>>] >>

\* The keys a caller's mapping may hold: the four criteria and one the
\* analyzer does not know.
FlagKeys == {criteria[i].criterion : i \in 1..Len(criteria)} \cup {"has_photos"}

FilesInfos == UNION {[S -> BOOLEAN] : S \in SUBSET FlagKeys}

\* Variant: the presence of the key is tested, not its value.
GetPresence(info, criterion, default) == criterion \in DOMAIN info

\* Line 127: files_info.get(criterion, False)
Get(info, criterion, default) ==
    IF criterion \in DOMAIN info THEN info[criterion] ELSE default

FlagDefault == FALSE

\* Lines 126-130: the loop over the criteria, from position i on, carrying
\* completeness_score and missing_docs.
RECURSIVE ScoreCriteria(_, _, _, _)
ScoreCriteria(info, i, completeness_score, missing_docs) ==
    IF i > Len(criteria)
    THEN [completeness_score |-> completeness_score, missing_docs |-> missing_docs]
    ELSE IF Get(info, criteria[i].criterion, FlagDefault)
         THEN ScoreCriteria(info, i + 1, RatAdd(completeness_score, criteria[i].weight), missing_docs)
         ELSE ScoreCriteria(info, i + 1, completeness_score, Append(missing_docs, criteria[i].doc_name))

InSeq(x, s) == \E k \in 1..Len(s) : s[k] = x

\* Variant: one recommendation per missing document, the visual plans included.
GenerateRecommendationsForAll(missing_docs) ==
    [k \in 1..Len(missing_docs) |-> "Recommendation"]

\* Lines 138-151.
GenerateRecommendations(missing_docs) ==
    LET r1 == IF InSeq("Technical brief", missing_docs)
              THEN <<"Request the brief from the customer or find a similar project">>
              ELSE <<>>
        r2 == IF InSeq("Estimate with labour costs", missing_docs)
              THEN <<"Use average labour costs of similar works">>
              ELSE <<>>
        r3 == IF InSeq("Work schedule", missing_docs)
              THEN <<"Rebuild the schedule from the estimate by computing labour costs">>
              ELSE <<>>
    IN  r1 \o r2 \o r3

\* Lines 132-136: (completeness_score / max_score) * 100.
CompletenessPercent(completeness_score) ==
    RatMul(RatDiv(completeness_score, RatInt(max_score)), RatInt(100))

\* Lines 114-136.  completeness_score is a local of the call; it is kept in
\* the result record here so that it can be observed.
AnalyzeResult(info) ==
    LET r == ScoreCriteria(info, 1, RatInt(0), <<>>)
    IN  [completeness_percent |-> CompletenessPercent(r.completeness_score),
         missing_documents |-> r.missing_docs,
         recommendations |-> GenerateRecommendations(r.missing_docs),
         completeness_score |-> r.completeness_score]

\* analyze_project_completeness(files_info)
AnalyzeProjectCompleteness(info) ==
    /\ files_info' = info
    /\ completeness' = AnalyzeResult(info)
    /\ UNCHANGED gantt_vars

\* The analyzer alone, no list of works: the scorer shares no state with the
\* scheduler.
InitScore ==
    /\ workers_count \in WorkerCounts
    /\ workday_hours \in WorkdayHours
    /\ works = <<>>
    /\ GanttIdle
    /\ ScoreIdle

NextScore == \E info \in FilesInfos : AnalyzeProjectCompleteness(info)

SpecScore == InitScore /\ [][NextScore]_vars

\* ------------------------------------------------------ the scorer's claims
Scored == completeness # None

Truthy(criterion) == criterion \in DOMAIN files_info /\ files_info[criterion]

AllFlagsTrue == \A i \in 1..Len(criteria) : Truthy(criteria[i].criterion)
NoFlagTrue == \A i \in 1..Len(criteria) : ~Truthy(criteria[i].criterion)

\* C4: with all four flags true the result is 100 percent, nothing missing and
\* no recommendation.
C4_AllTrueIsHundred ==
    (Scored /\ AllFlagsTrue) =>
        /\ completeness.completeness_percent = <<100, 1>>
        /\ completeness.missing_documents = <<>>
        /\ completeness.recommendations = <<>>

\* C5: with every flag false or absent the result is 0 percent, all four
\* labels missing in catalog order, and exactly three recommendations.
C5_NoneTrueIsZero ==
    (Scored /\ NoFlagTrue) =>
        /\ completeness.completeness_percent = <<0, 1>>
        /\ completeness.missing_documents = [i \in 1..Len(criteria) |-> criteria[i].doc_name]
        /\ Len(completeness.recommendations) = 3

C5_Witness_AllFalse ==
    /\ Scored
    /\ \A i \in 1..Len(criteria) :
           criteria[i].criterion \in DOMAIN files_info /\ ~files_info[criteria[i].criterion]

C5_Witness_EmptyMapping == Scored /\ DOMAIN files_info = {}

\* The criteria whose flag is false or absent, and the labels that have a
\* remediation, each in catalog order.
IsMissing(c) == ~Truthy(c.criterion)

Remediations == <<
    [doc_name |-> "Technical brief",
     text |-> "Request the brief from the customer or find a similar project"],
    [doc_name |-> "Estimate with labour costs",
     text |-> "Use average labour costs of similar works"],
    [doc_name |-> "Work schedule",
     text |-> "Rebuild the schedule from the estimate by computing labour costs"] >>

RemediationDue(r) ==
    \E i \in 1..Len(criteria) : criteria[i].doc_name = r.doc_name /\ IsMissing(criteria[i])

Halves(b, n) == IF b THEN n ELSE 0

\* C8: for every mapping, missing_documents is exactly the labels of the
\* criteria whose flag is false or absent, in catalog order; the score is the
\* sum of the weights (1, 2, 1, 0.5) of the criteria whose flag is true; and
\* recommendations holds, in catalog order, the remediation of every missing
\* label that has one and nothing else.
C8_MissingScoreRecommendations ==
    Scored =>
        LET missing == SelectSeq(criteria, IsMissing)
            due == SelectSeq(Remediations, RemediationDue)
        IN  /\ completeness.missing_documents = [i \in 1..Len(missing) |-> missing[i].doc_name]
            /\ completeness.completeness_score =
                   Rat(Halves(Truthy("has_technical_task"), 2) + Halves(Truthy("has_estimate"), 4)
                       + Halves(Truthy("has_schedule"), 2) + Halves(Truthy("has_visual_plans"), 1), 2)
            /\ completeness.recommendations = [i \in 1..Len(due) |-> due[i].text]

\* A mapping with a true flag, a false flag, an absent flag, and the visual
\* plans missing.
C8_Witness ==
    /\ Scored
    /\ Truthy("has_estimate")
    /\ "has_schedule" \in DOMAIN files_info /\ ~files_info["has_schedule"]
    /\ "has_technical_task" \notin DOMAIN files_info
    /\ ~Truthy("has_visual_plans")
    /\ Len(completeness.recommendations) = 2
    /\ Len(completeness.missing_documents) = 3

\* ---------------------------------------------------- the scheduler's claims
Returned == calls >= 1
\* The latest call was the first on the list: every date was None on entry.
FreshCall == calls = 1

Pos == 1..Len(works)

\* The dependency list of the work at position i names the work at position j.
NamesDep(i, j) == InSeq(works[j].name, works[i].dependencies)

Duration(i) == timedelta(calculate_duration(works[i]))
PositiveDuration(i) == calculate_duration(works[i])[1] > 0

\* No two works of the list bear the same name (the data model's requirement,
\* which the code does not check).
UniqueNames == \A i, j \in Pos : works[i].name = works[j].name => i = j

\* x is the latest of the dates in S.
IsLatest(x, S) == x \in S /\ \A y \in S : DatetimeLeq(y, x)

\* C1, as stated (and here only for lists of unique names): a work B that
\* names an earlier work A of positive duration starts exactly when A ends.
C1_StartsAtDependencyEnd ==
    (Returned /\ UniqueNames) =>
        \A a, b \in Pos :
            (a < b /\ NamesDep(b, a) /\ PositiveDuration(a)) =>
                works[b].start_date = works[a].end_date

\* C1, amended: such a B starts no earlier than A ends, and exactly when A
\* ends if A is the only work of the list that B's dependency list names.
C1_StartsNoEarlierThanDependencyEnd ==
    Returned =>
        \A a, b \in Pos :
            (a < b /\ NamesDep(b, a) /\ PositiveDuration(a)) =>
                /\ DatetimeLeq(works[a].end_date, works[b].start_date)
                /\ (\A j \in Pos : NamesDep(b, j) => j = a) =>
                       works[b].start_date = works[a].end_date

C1_Witness ==
    /\ Returned
    /\ \E a, b \in Pos :
           /\ a < b /\ NamesDep(b, a) /\ PositiveDuration(a)
           /\ \A j \in Pos : NamesDep(b, j) => j = a
           /\ works[b].start_date = works[a].end_date
           /\ works[b].start_date # start_date

\* Every dependency name of the work at position c is borne by some later
\* work and by no work at position c or before.
OnlyLaterDeps(c) ==
    /\ works[c].dependencies # <<>>
    /\ \A k \in 1..Len(works[c].dependencies) :
           /\ \E j \in Pos : j > c /\ works[j].name = works[c].dependencies[k]
           /\ \A j \in Pos : j <= c => works[j].name # works[c].dependencies[k]

\* C2: on a freshly constructed list, a work whose dependency names belong
\* only to later works starts at the project start date.
C2_LaterDependencyNotSeen ==
    FreshCall => \A c \in Pos : OnlyLaterDeps(c) => works[c].start_date = start_date

C2_Witness ==
    /\ FreshCall
    /\ \E c \in Pos :
           /\ OnlyLaterDeps(c)
           /\ works[c].start_date = start_date
           /\ \E j \in Pos : j > c /\ NamesDep(c, j) /\ DatetimeLess(start_date, works[j].end_date)

\* C3: whatever the list and whatever dates it carried on entry, a work
\* with no dependencies starts at the project start date and lasts
\* timedelta(days=calculate_duration(work)).
C3_NoDependencies ==
    Returned =>
        \A i \in Pos :
            works[i].dependencies = <<>> =>
                /\ works[i].start_date = start_date
                /\ DatetimeSub(works[i].end_date, works[i].start_date) = Duration(i)

\* A second call with another project start date, on a list that also holds
\* a work with dependencies.
C3_Witness ==
    /\ calls = 2 /\ start_date # entry_start_date
    /\ \E i, j \in Pos :
           /\ works[i].dependencies = <<>> /\ PositiveDuration(i)
           /\ entry_works[i].start_date # start_date
           /\ works[i].start_date = start_date
           /\ works[j].dependencies # <<>>

\* C6: after the call every work has both dates, does not end before it
\* starts, and lasts timedelta(days=calculate_duration(work)).
C6_DatesSetAndOrdered ==
    Returned =>
        \A i \in Pos :
            /\ works[i].start_date # None
            /\ works[i].end_date # None
            /\ DatetimeLeq(works[i].start_date, works[i].end_date)
            /\ DatetimeSub(works[i].end_date, works[i].start_date) = Duration(i)

\* A dependency cycle of two works, one of them moved past the project
\* start, with a duration that is not a whole number of microseconds.
C6_Witness ==
    /\ Returned
    /\ workers_count = 7
    /\ \E i, j \in Pos :
           /\ i # j /\ NamesDep(i, j) /\ NamesDep(j, i)
           /\ PositiveDuration(i) /\ PositiveDuration(j)
           /\ works[j].start_date # start_date
           /\ Duration(j)[3] # 0

\* C7: a work none of whose dependency names is borne by a work of the list
\* starts at the project start date.
C7_UnresolvedDependency ==
    Returned =>
        \A i \in Pos :
            (works[i].dependencies # <<>> /\ \A j \in Pos : ~NamesDep(i, j)) =>
                works[i].start_date = start_date

C7_Witness ==
    /\ Returned
    /\ \E i, j \in Pos :
           /\ works[i].dependencies # <<>> /\ \A k \in Pos : ~NamesDep(i, k)
           /\ PositiveDuration(i)
           /\ works[i].start_date = start_date
           /\ j < i /\ DatetimeLess(start_date, works[j].end_date)

\* The end dates of the works before position i that i's dependency list names.
EarlierDepEnds(i) == {works[j].end_date : j \in {k \in Pos : k < i /\ NamesDep(i, k)}}

\* C9, as stated (and here only for lists of unique names): on a freshly
\* constructed list every work starts at the latest of the project start date
\* and the end dates of the earlier works it names; no work at the same or a
\* later position has any influence.
C9_OnlyEarlierWorksSeen ==
    (FreshCall /\ UniqueNames) =>
        \A i \in Pos : IsLatest(works[i].start_date, {start_date} \cup EarlierDepEnds(i))

\* The tentative end date of the work at position i, which the scan sees when
\* the work names itself.
OwnTentativeEnd(i) ==
    IF NamesDep(i, i) THEN {DatetimeAdd(start_date, Duration(i))} ELSE {}

\* C9, amended: on a freshly constructed list every work starts at the latest
\* of the project start date, the end dates of the earlier works it names and,
\* when it names itself, its own tentative end date (project start plus its
\* duration); no work at a later position has any influence.
C9_EarlierWorksAndOwnTentativeEnd ==
    FreshCall =>
        \A i \in Pos :
            IsLatest(works[i].start_date,
                     {start_date} \cup EarlierDepEnds(i) \cup OwnTentativeEnd(i))

\* A work that names an earlier work, itself and nothing later, and is moved
\* by its own tentative end; and a work that names a later work of positive
\* duration.
C9_Witness ==
    /\ FreshCall
    /\ \E i \in Pos :
           /\ NamesDep(i, i) /\ EarlierDepEnds(i) # {}
           /\ works[i].start_date = DatetimeAdd(start_date, Duration(i))
           /\ \A y \in EarlierDepEnds(i) : DatetimeLess(y, works[i].start_date)

C9_Witness_LaterIgnored ==
    /\ FreshCall
    /\ \E i, j \in Pos :
           /\ i < j /\ NamesDep(i, j) /\ PositiveDuration(j)
           /\ works[i].start_date = start_date

SameDatesAsOnEntry ==
    \A i \in Pos :
        /\ works[i].start_date = entry_works[i].start_date
        /\ works[i].end_date = entry_works[i].end_date

SecondCallSameStart == calls >= 2 /\ start_date = entry_start_date

\* C10, as stated (and here only for lists of unique names without
\* self-dependencies): a second call with the same project start date leaves
\* every date as the first call set it.
C10_Idempotent ==
    (SecondCallSameStart /\ UniqueNames /\ \A i \in Pos : ~NamesDep(i, i)) => SameDatesAsOnEntry

\* C10, amended: it does so if no work names a work placed later in the list.
NoLaterDeps == \A i, j \in Pos : NamesDep(i, j) => j <= i

C10_IdempotentWithoutLaterDeps ==
    (SecondCallSameStart /\ NoLaterDeps) => SameDatesAsOnEntry

C10_Witness ==
    /\ SecondCallSameStart /\ NoLaterDeps
    /\ SameDatesAsOnEntry
    /\ \E i, j \in Pos :
           /\ j < i /\ NamesDep(i, j) /\ NamesDep(i, i)
           /\ PositiveDuration(i) /\ PositiveDuration(j)

=============================================================================
